---- MODULE Spec2Model ----
(***************************************************************************)
(* Model of src/src/rtmr3.tsx: the hex codec, the manifest hasher, the     *)
(* event digest builder, the register replay and the React effect that     *)
(* orchestrates them.                                                      *)
(*                                                                         *)
(* Text is a sequence of one-character strings, bytes are sequences of     *)
(* 0..255.  An async function is a call record that is either awaiting one *)
(* crypto.subtle.digest call (st = "await", with the algorithm and the     *)
(* data handed to it), has returned (st = "ret") or has thrown             *)
(* (st = "throw").  <fn>_Start runs the function up to its first await,    *)
(* <fn>_Resume runs it from the settled digest promise to the next await.  *)
(***************************************************************************)
EXTENDS Integers, Sequences, FiniteSets, TLC

VARIABLES
    fn,             \* function harness: the function under test
    args,           \* function harness: its arguments
    calls,          \* function harness: the call records in progress
    outcomes,       \* function harness: per call, how its digest promises settled, in order
    inputs,         \* component state: useState<Inputs>
    calculated,     \* component state: useState<Calculated>
    runs,           \* component: the effect runs started so far, in order
    effectPending,  \* component: inputs changed and the effect has not re-run yet
    rejections,     \* component: the number of digest promises rejected so far
    writer          \* component: index of the run whose setCalculated ran last

vars == <<fn, args, calls, outcomes, inputs, calculated, runs, effectPending, rejections,
          writer>>

fnVars == <<fn, args, calls, outcomes>>
uiVars == <<inputs, calculated, runs, effectPending, rejections, writer>>

(***************************************************************************)
(* Bounds of the model.                                                    *)
(***************************************************************************)
MaxHexLen == 3      \* longest text handed to hexToUint8Array on its own
MaxHist == 2        \* longest history handed to rtmrReplay on its own
MaxFields == 2      \* most fields of a generated JSON manifest
MaxRuns == 2        \* most effect runs of the component
MaxRejects == 1     \* most digest promises rejected in the component

(***************************************************************************)
(* Program constants.                                                      *)
(***************************************************************************)
MRLen == 48         \* new Uint8Array(48)
InitMRLen == 96     \* "0".repeat(96)

Min(a, b) == IF a < b THEN a ELSE b

\* the concatenation of a sequence of sequences
RECURSIVE ConcatRange(_, _, _)
ConcatRange(ss, lo, hi) ==
    IF lo > hi THEN <<>>
    ELSE IF lo = hi THEN ss[lo]
    ELSE LET mid == (lo + hi) \div 2
         IN  ConcatRange(ss, lo, mid) \o ConcatRange(ss, mid + 1, hi)

Concat(ss) == ConcatRange(ss, 1, Len(ss))

Zeros(n) == [i \in 1..n |-> 0]

(***************************************************************************)
(* Hex codec.                                                              *)
(***************************************************************************)
HexDigits == <<"0", "1", "2", "3", "4", "5", "6", "7",
               "8", "9", "a", "b", "c", "d", "e", "f">>

\* the i flag of the regular expression: A-F match as a-f
FoldCase(c) ==
    CASE c = "A" -> "a" [] c = "B" -> "b" [] c = "C" -> "c"
      [] c = "D" -> "d" [] c = "E" -> "e" [] c = "F" -> "f"
      [] OTHER -> c

\* the character class [\dA-F] under the i flag
IsHexChar(c) == FoldCase(c) \in {HexDigits[v] : v \in 1..16}

HexValue(c) == (CHOOSE v \in 1..16 : HexDigits[v] = FoldCase(c)) - 1

\* parseInt(s, 16) of a two-character match
ParseInt16(p) == 16 * HexValue(p[1]) + HexValue(p[2])

\* hex.match(/[\dA-F]{2}/gi) || [] : the successive non-overlapping matches,
\* each search starting where the previous match ended
RECURSIVE MatchPairsFrom(_, _)
MatchPairsFrom(hex, i) ==
    IF i + 1 > Len(hex) THEN <<>>
    ELSE IF IsHexChar(hex[i]) /\ IsHexChar(hex[i + 1])
         THEN <<SubSeq(hex, i, i + 1)>> \o MatchPairsFrom(hex, i + 2)
         ELSE MatchPairsFrom(hex, i + 1)

\* a scan that first deletes the characters outside [\dA-F] and then pairs up
\* what is left
MatchPairs_Stripped(hex) ==
    LET kept == SelectSeq(hex, IsHexChar)
    IN  [k \in 1..(Len(kept) \div 2) |-> SubSeq(kept, 2 * k - 1, 2 * k)]

MatchPairs(hex) == MatchPairsFrom(hex, 1)

hexToUint8Array(hex) ==
    LET pairs == MatchPairs(hex)
    IN  [k \in 1..Len(pairs) |-> ParseInt16(pairs[k])]

\* b.toString(16).padStart(2, "0")
ByteToHex(b) == <<HexDigits[(b \div 16) + 1], HexDigits[(b % 16) + 1]>>

uint8ArrayToHex(bytes) == Concat([k \in 1..Len(bytes) |-> ByteToHex(bytes[k])])

INIT_MR == [i \in 1..InitMRLen |-> "0"]

(***************************************************************************)
(* crypto.subtle.digest.  The hash functions themselves are outside the    *)
(* repository; they are stood in for by a deterministic function of the    *)
(* algorithm and the data with the algorithm's output length (SHA-384: 48  *)
(* bytes, SHA-256: 32 bytes), whose first two bytes carry a 15-bit mix of  *)
(* the whole input.                                                        *)
(***************************************************************************)
DigestLen(alg) == IF alg = "SHA-384" THEN 48 ELSE 32

RECURSIVE Pow33(_)
Pow33(n) ==
    IF n = 0 THEN 1
    ELSE LET r == Pow33(n \div 2)
         IN  (((r * r) % 32749) * (IF n % 2 = 1 THEN 33 ELSE 1)) % 32749

\* the polynomial sum of (data[i] + 1) * 33^(hi - i) over lo..hi, modulo 32749
RECURSIVE MixRange(_, _, _)
MixRange(data, lo, hi) ==
    IF lo > hi THEN 0
    ELSE IF lo = hi THEN data[lo] + 1
    ELSE LET mid == (lo + hi) \div 2
         IN  (MixRange(data, lo, mid) * Pow33(hi - mid) + MixRange(data, mid + 1, hi)) % 32749

Digest(alg, data) ==
    LET h == (MixRange(data, 1, Len(data)) + 31 * DigestLen(alg) + Len(data)) % 32749
    IN  [i \in 1..DigestLen(alg) |->
            IF i = 1 THEN h \div 256
            ELSE IF i = 2 THEN h % 256
            ELSE (h + 7 * i) % 256]

\* the settled digest promise: fulfilled with the hash, or rejected
Fulfilled(alg, data) == [ok |-> TRUE, bytes |-> Digest(alg, data)]
Rejected == [ok |-> FALSE, bytes |-> <<>>]

(***************************************************************************)
(* Call records.                                                           *)
(***************************************************************************)
NoLocals == [k |-> 0, mr |-> <<>>, history |-> <<>>]

Ret(f, v) ==
    [fn |-> f, st |-> "ret", value |-> v, alg |-> "", data |-> <<>>, loc |-> NoLocals]

Throw(f) ==
    [fn |-> f, st |-> "throw", value |-> <<>>, alg |-> "", data |-> <<>>, loc |-> NoLocals]

Await(f, a, d, l) ==
    [fn |-> f, st |-> "await", value |-> <<>>, alg |-> a, data |-> d, loc |-> l]

(***************************************************************************)
(* rtmrReplay                                                              *)
(***************************************************************************)
\* the entry decoded and left unpadded
ContentArray_NoPad(content) == hexToUint8Array(content)

\* lines 26-31: the decoded entry, zero-padded on the right when shorter than 48
ContentArray(content) ==
    LET contentArray == hexToUint8Array(content)
    IN  IF Len(contentArray) < MRLen
        THEN contentArray \o Zeros(MRLen - Len(contentArray))
        ELSE contentArray

\* lines 26-36 of iteration k: build combined and call the digest
ReplayIter(history, k, mr) ==
    Await("rtmrReplay", "SHA-384", mr \o ContentArray(history[k]),
          [k |-> k, mr |-> mr, history |-> history])

rtmrReplay_Start(history) ==
    IF Len(history) = 0 THEN Ret("rtmrReplay", INIT_MR)
    ELSE ReplayIter(history, 1, hexToUint8Array(INIT_MR))

\* the catch of lines 38-41
ReplayCatch == Ret("rtmrReplay", <<>>)

\* the loop body without its try/catch: a rejected digest propagates
rtmrReplay_Resume_NoCatch(call, out) ==
    IF ~out.ok THEN Throw("rtmrReplay")
    ELSE IF call.loc.k = Len(call.loc.history)
         THEN Ret("rtmrReplay", uint8ArrayToHex(out.bytes))
         ELSE ReplayIter(call.loc.history, call.loc.k + 1, out.bytes)

rtmrReplay_Resume(call, out) ==
    IF ~out.ok THEN ReplayCatch
    ELSE IF call.loc.k = Len(call.loc.history)
         THEN Ret("rtmrReplay", uint8ArrayToHex(out.bytes))
         ELSE ReplayIter(call.loc.history, call.loc.k + 1, out.bytes)

(***************************************************************************)
(* calcDigest                                                              *)
(***************************************************************************)
\* setUint32(0, 0x08000001, true): little-endian
dstackEventTag == <<1, 0, 0, 8>>

separator == <<58>>

\* new TextEncoder().encode(eventName) for the five event names
eventNameBytes(eventName) ==
    CASE eventName = "rootfs-hash" ->
            <<114, 111, 111, 116, 102, 115, 45, 104, 97, 115, 104>>
      [] eventName = "app-id" -> <<97, 112, 112, 45, 105, 100>>
      [] eventName = "compose-hash" ->
            <<99, 111, 109, 112, 111, 115, 101, 45, 104, 97, 115, 104>>
      [] eventName = "ca-cert-hash" ->
            <<99, 97, 45, 99, 101, 114, 116, 45, 104, 97, 115, 104>>
      [] eventName = "instance-id" ->
            <<105, 110, 115, 116, 97, 110, 99, 101, 45, 105, 100>>

EventBytes(eventName, eventValue) ==
    dstackEventTag \o separator \o eventNameBytes(eventName) \o separator
        \o hexToUint8Array(eventValue)

calcDigest_Start(eventName, eventValue) ==
    IF eventValue = <<>> THEN Ret("calcDigest", <<>>)
    ELSE Await("calcDigest", "SHA-384", EventBytes(eventName, eventValue), NoLocals)

\* the catch of lines 79-82
CalcDigestCatch == Ret("calcDigest", <<>>)

\* the digest truncated to 32 bytes
calcDigest_Resume_Short(call, out) ==
    IF ~out.ok THEN CalcDigestCatch
    ELSE Ret("calcDigest", uint8ArrayToHex(SubSeq(out.bytes, 1, 32)))

calcDigest_Resume(call, out) ==
    IF ~out.ok THEN CalcDigestCatch
    ELSE Ret("calcDigest", uint8ArrayToHex(out.bytes))

(***************************************************************************)
(* getComposeHash                                                          *)
(*                                                                         *)
(* The manifest text is a sequence of lexemes [k, c]: k is the kind ("lb", *)
(* "rb", "colon", "comma", "ws", "num", "str", "word") and c the           *)
(* characters (as code units) between the quotes of a string lexeme, or    *)
(* of the lexeme itself otherwise.  JSON.parse is modelled on the grammar  *)
(* of numbers, strings and objects; a "word" lexeme is not JSON.  A parsed *)
(* value is [t, c, m]: t is "num", "str" or "obj", c the characters of a   *)
(* number or string, m the members <<key, value>> of an object in own-key  *)
(* order.                                                                  *)
(***************************************************************************)
Lex(k, c) == [k |-> k, c |-> c]

LB == Lex("lb", <<123>>)
RB == Lex("rb", <<125>>)
COLON == Lex("colon", <<58>>)
COMMA == Lex("comma", <<44>>)
WS == Lex("ws", <<32>>)

\* the characters of one lexeme as they stand in the text
LexChars(l) == IF l.k = "str" THEN <<34>> \o l.c \o <<34>> ELSE l.c

TextChars(text) == Concat([i \in 1..Len(text) |-> LexChars(text[i])])

\* !composeContent.trim()
IsBlank(text) == \A i \in 1..Len(text) : text[i].k = "ws"

NumVal(c) == [t |-> "num", c |-> c, m |-> <<>>]
StrVal(c) == [t |-> "str", c |-> c, m |-> <<>>]
ObjVal(m) == [t |-> "obj", c |-> <<>>, m |-> m]

ParseFail == [ok |-> FALSE, val |-> NumVal(<<>>), next |-> 0]
ParseOk(v, n) == [ok |-> TRUE, val |-> v, next |-> n]

RECURSIVE SkipWs(_, _)
SkipWs(text, i) ==
    IF i <= Len(text) /\ text[i].k = "ws" THEN SkipWs(text, i + 1) ELSE i

KindAt(text, i) == IF i <= Len(text) THEN text[i].k ELSE "eof"

\* defining a property of an object: a repeated key keeps its place and
\* takes the new value
PutMember(m, key, val) ==
    IF \E i \in 1..Len(m) : m[i][1] = key
    THEN [i \in 1..Len(m) |-> IF m[i][1] = key THEN <<key, val>> ELSE m[i]]
    ELSE Append(m, <<key, val>>)

RECURSIVE ParseValue(_, _), ParseMembers(_, _, _, _)
ParseValue(text, i) ==
    CASE KindAt(text, i) = "num" -> ParseOk(NumVal(text[i].c), i + 1)
      [] KindAt(text, i) = "str" -> ParseOk(StrVal(text[i].c), i + 1)
      [] KindAt(text, i) = "lb" -> ParseMembers(text, SkipWs(text, i + 1), <<>>, TRUE)
      [] OTHER -> ParseFail

ParseMembers(text, i, acc, first) ==
    IF first /\ KindAt(text, i) = "rb" THEN ParseOk(ObjVal(acc), i + 1)
    ELSE IF KindAt(text, i) # "str" THEN ParseFail
    ELSE LET colon == SkipWs(text, i + 1)
         IN  IF KindAt(text, colon) # "colon" THEN ParseFail
             ELSE LET v == ParseValue(text, SkipWs(text, colon + 1))
                  IN  IF ~v.ok THEN ParseFail
                      ELSE LET j == SkipWs(text, v.next)
                               m == PutMember(acc, text[i].c, v.val)
                           IN  CASE KindAt(text, j) = "comma" ->
                                       ParseMembers(text, SkipWs(text, j + 1), m, FALSE)
                                 [] KindAt(text, j) = "rb" -> ParseOk(ObjVal(m), j + 1)
                                 [] OTHER -> ParseFail

\* JSON.parse(composeContent): ok is FALSE where it throws
JSONParse(text) ==
    LET r == ParseValue(text, SkipWs(text, 1))
    IN  IF r.ok /\ SkipWs(text, r.next) = Len(text) + 1 THEN r ELSE ParseFail

contentKey == <<99, 111, 110, 116, 101, 110, 116>>
dockerConfigKey == <<100, 111, 99, 107, 101, 114, 95, 99, 111, 110, 102, 105, 103>>

\* lines 89-95: the parsed manifest, or { content: composeContent }
ManifestDict(text) ==
    LET r == JSONParse(text)
    IN  IF r.ok THEN r.val ELSE ObjVal(<<<<contentKey, StrVal(TextChars(text))>>>>)

RECURSIVE DecimalChars(_)
DecimalChars(n) ==
    IF n < 10 THEN <<48 + n>> ELSE DecimalChars(n \div 10) \o <<48 + (n % 10)>>

\* the own enumerable properties an object spread copies: the members of an
\* object, the indexed characters of a string, none of a number
OwnProperties(v) ==
    CASE v.t = "obj" -> v.m
      [] v.t = "str" -> [i \in 1..Len(v.c) |-> <<DecimalChars(i - 1), StrVal(<<v.c[i]>>)>>]
      [] OTHER -> <<>>

\* the spread alone: docker_config left as it was parsed
AdjustedManifest_Kept(manifestDict) == ObjVal(OwnProperties(manifestDict))

\* line 98: { ...manifestDict, docker_config: {} }
AdjustedManifest(manifestDict) ==
    ObjVal(PutMember(OwnProperties(manifestDict), dockerConfigKey, ObjVal(<<>>)))

\* the escapes of JSON.stringify inside a string
EscapeChar(c) == IF c = 34 \/ c = 92 THEN <<92, c>> ELSE <<c>>

Quote(c) == <<34>> \o Concat([i \in 1..Len(c) |-> EscapeChar(c[i])]) \o <<34>>

RECURSIVE JSONStringify(_)
JSONStringify(v) ==
    CASE v.t = "num" -> v.c
      [] v.t = "str" -> Quote(v.c)
      [] OTHER ->
            <<123>>
            \o Concat([i \in 1..Len(v.m) |->
                    (IF i > 1 THEN <<44>> ELSE <<>>)
                    \o Quote(v.m[i][1]) \o <<58>> \o JSONStringify(v.m[i][2])])
            \o <<125>>

\* line 101
ManifestString(text) == JSONStringify(AdjustedManifest(ManifestDict(text)))

\* new TextEncoder().encode(manifestString): every character of the model is
\* ASCII and encodes as the one byte of its code
TextEncode(chars) == [i \in 1..Len(chars) |-> chars[i] % 256]

getComposeHash_Start(composeContent) ==
    IF IsBlank(composeContent) THEN Ret("getComposeHash", <<>>)
    ELSE Await("getComposeHash", "SHA-256",
               TextEncode(ManifestString(composeContent)), NoLocals)

\* the catch of lines 110-113
ComposeCatch == Ret("getComposeHash", <<>>)

getComposeHash_Resume(call, out) ==
    IF ~out.ok THEN ComposeCatch
    ELSE Ret("getComposeHash", uint8ArrayToHex(out.bytes))

(***************************************************************************)
(* calculateValues (lines 185-212).  The record of one invocation: the     *)
(* inputs the effect closed over, the stage it has reached, the function   *)
(* call it awaits (sub), the values computed so far, and the digest calls  *)
(* issued and settled so far, in order.  st is "await" while a digest call *)
(* is outstanding and "ret" once the function is over; caught is TRUE when *)
(* it ended in the catch of lines 209-211.                                 *)
(***************************************************************************)
NoDigests == <<<<>>, <<>>, <<>>, <<>>, <<>>>>

\* app-id measured before rootfs-hash
eventNames_Swapped ==
    <<"app-id", "rootfs-hash", "compose-hash", "ca-cert-hash", "instance-id">>

\* the keys of the digests object, in the order of lines 193-197
eventNames == <<"rootfs-hash", "app-id", "compose-hash", "ca-cert-hash", "instance-id">>

\* the second argument of the i-th calcDigest call
EventValueOf(cv, i) ==
    CASE i = 1 -> cv.inputs.rootFsHash
      [] i = 2 -> cv.inputs.appId
      [] i = 3 -> cv.composeHash
      [] i = 4 -> cv.inputs.caCertHash
      [] i = 5 -> cv.inputs.instanceId

\* the argument of setCalculated
Result(cv) == [composeHash |-> cv.composeHash, digests |-> cv.digests, rtmr3 |-> cv.rtmr3]

\* suspend on the digest call of a function call that is awaiting one
Suspend(cv, stage, idx, sub) ==
    [cv EXCEPT !.st = "await", !.stage = stage, !.idx = idx, !.sub = sub,
               !.issued = Append(@, <<stage, idx>>)]

Finish(cv) == [cv EXCEPT !.st = "ret", !.stage = "done", !.sub = Ret("", <<>>)]

\* lines 209-211
Caught(cv) ==
    [cv EXCEPT !.st = "ret", !.stage = "done", !.caught = TRUE, !.sub = Ret("", <<>>)]

\* no gating: replay whatever digests there are
AllDigests_Ungated(digests) == TRUE

\* line 202: digestValues.every((v) => v)
AllDigests(digests) == \A i \in 1..Len(digests) : digests[i] # <<>>

\* lines 201-208
Rtmr3Step(cv) ==
    IF AllDigests(cv.digests)
    THEN LET sub == rtmrReplay_Start(cv.digests)
         IN  CASE sub.st = "await" -> Suspend(cv, "replay", sub.loc.k, sub)
               [] sub.st = "ret" -> Finish([cv EXCEPT !.rtmr3 = sub.value])
               [] OTHER -> Caught(cv)
    ELSE Finish([cv EXCEPT !.rtmr3 = <<>>])

\* lines 192-198 from the i-th calcDigest call on
RECURSIVE DigestsFrom(_, _)
DigestsFrom(cv, i) ==
    IF i > Len(eventNames) THEN Rtmr3Step(cv)
    ELSE LET sub == calcDigest_Start(eventNames[i], EventValueOf(cv, i))
         IN  CASE sub.st = "await" -> Suspend(cv, "digest", i, sub)
               [] sub.st = "ret" -> DigestsFrom([cv EXCEPT !.digests[i] = sub.value], i + 1)
               [] OTHER -> Caught(cv)

\* the record of an invocation that has not reached its first await
NewInvocation(in) ==
    [fn |-> "calculateValues", st |-> "await", stage |-> "compose", idx |-> 0,
     inputs |-> in, sub |-> Ret("", <<>>), composeHash |-> <<>>,
     digests |-> NoDigests, rtmr3 |-> <<>>, caught |-> FALSE,
     issued |-> <<>>, settled |-> <<>>]

calculateValues_Start(in) ==
    LET cv == NewInvocation(in)
        sub == getComposeHash_Start(in.composeContent)
    IN  CASE sub.st = "await" -> Suspend(cv, "compose", 0, sub)
          [] sub.st = "ret" -> DigestsFrom([cv EXCEPT !.composeHash = sub.value], 1)
          [] OTHER -> Caught(cv)

\* the awaited function call, run on from its settled digest promise
SubResume(sub, out) ==
    CASE sub.fn = "getComposeHash" -> getComposeHash_Resume(sub, out)
      [] sub.fn = "calcDigest" -> calcDigest_Resume(sub, out)
      [] sub.fn = "rtmrReplay" -> rtmrReplay_Resume(sub, out)

calculateValues_Resume(cv0, out) ==
    LET sub == SubResume(cv0.sub, out)
        cv == [cv0 EXCEPT !.settled = Append(@, <<cv0.stage, cv0.idx>>)]
    IN  CASE sub.st = "throw" -> Caught(cv)
          [] sub.st = "await" -> Suspend(cv, "replay", sub.loc.k, sub)
          [] cv.stage = "compose" -> DigestsFrom([cv EXCEPT !.composeHash = sub.value], 1)
          [] cv.stage = "digest" ->
                DigestsFrom([cv EXCEPT !.digests[cv.idx] = sub.value], cv.idx + 1)
          [] OTHER -> Finish([cv EXCEPT !.rtmr3 = sub.value])

\* the digest call a call record is suspended on
Pending(call) == IF call.fn = "calculateValues" THEN call.sub ELSE call

Resume(call, out) ==
    IF call.fn = "calculateValues" THEN calculateValues_Resume(call, out)
    ELSE SubResume(call, out)

(***************************************************************************)
(* Inputs of the functions when they are exercised on their own.           *)
(***************************************************************************)
SeqsUpTo(S, n) == UNION {[1..k -> S] : k \in 0..n}

HexAlphabet == {"1", "a", "F", "-"}
HexTexts == SeqsUpTo(HexAlphabet, MaxHexLen)

\* a 48-byte digest in hex, the same one byte longer, and shorter entries
Digest48 == uint8ArrayToHex(Digest("SHA-384", <<1>>))
Digest49 == Digest48 \o <<"f", "f">>
HistoryEntries == {<<>>, <<"0", "a">>, <<"z", "z">>, Digest48, Digest49}
Histories == SeqsUpTo(HistoryEntries, MaxHist)

KeyA == Lex("str", <<97>>)
KeyDC == Lex("str", dockerConfigKey)
One == Lex("num", <<49>>)

MemberTexts == {<<k, v>> : k \in {KeyA, KeyDC}, v \in {<<One>>, <<LB, RB>>}}
FieldLists == SeqsUpTo(MemberTexts, MaxFields)

\* the JSON text of an object with the given fields, with or without blanks
Render(fields, blanks) ==
    LET sp == IF blanks THEN <<WS>> ELSE <<>>
    IN  <<LB>>
        \o Concat([i \in 1..Len(fields) |->
                (IF i > 1 THEN <<COMMA>> \o sp ELSE <<>>)
                \o <<fields[i][1], COLON>> \o sp \o fields[i][2]])
        \o <<RB>>

CompactTexts == {Render(f, FALSE) : f \in FieldLists}
SpacedTexts == {Render(f, TRUE) : f \in FieldLists}

\* not JSON, not an object, blank, and a JSON object that spells the wrapper
OtherTexts ==
    { <<Lex("word", <<120>>)>>, <<LB, KeyA>>, <<One>>, <<>>, <<WS>>,
      <<LB, Lex("str", contentKey), COLON, Lex("str", <<120>>), RB>> }

ManifestTexts == CompactTexts \cup SpacedTexts \cup OtherTexts

HexFieldValues == {<<>>, <<"0", "a">>, <<"z", "z">>}

InputCombos ==
    [composeContent : {<<>>, <<WS>>, Render(<<<<KeyA, <<One>>>>>>, FALSE), <<Lex("word", <<120>>)>>},
     rootFsHash : HexFieldValues, appId : HexFieldValues,
     caCertHash : HexFieldValues, instanceId : HexFieldValues]

FnArgs(f) ==
    CASE f = "hexToUint8Array" -> {<<h>> : h \in HexTexts}
      [] f = "rtmrReplay" -> {<<h>> : h \in Histories}
      [] f = "calcDigest" ->
            {<<eventNames[i], v>> : i \in 1..Len(eventNames), v \in HexTexts \cup {Digest48}}
      [] f = "getComposeHash" -> {<<t>> : t \in ManifestTexts}
      [] f = "calculateValues" -> {<<in>> : in \in InputCombos}

\* the calls one exercise makes: one call of the function, or getComposeHash
\* once on each of two texts (to compare the two results)
StartCalls(f, a) ==
    CASE f = "hexToUint8Array" -> <<Ret(f, hexToUint8Array(a[1]))>>
      [] f = "rtmrReplay" -> <<rtmrReplay_Start(a[1])>>
      [] f = "calcDigest" -> <<calcDigest_Start(a[1], a[2])>>
      [] f = "getComposeHash" -> <<getComposeHash_Start(a[1])>>
      [] f = "getComposeHash twice" ->
            <<getComposeHash_Start(a[1]), getComposeHash_Start(a[2])>>
      [] f = "calculateValues" -> <<calculateValues_Start(a[1])>>

Functions == {"hexToUint8Array", "rtmrReplay", "calcDigest", "getComposeHash", "calculateValues"}

NoInputs ==
    [composeContent |-> <<>>, rootFsHash |-> <<>>, appId |-> <<>>,
     caCertHash |-> <<>>, instanceId |-> <<>>]

NoCalculated == [composeHash |-> <<>>, digests |-> NoDigests, rtmr3 |-> <<>>]

UiIdle ==
    /\ inputs = NoInputs
    /\ calculated = NoCalculated
    /\ runs = <<>>
    /\ effectPending = FALSE
    /\ rejections = 0
    /\ writer = 0

FnInit ==
    /\ fn \in Functions
    /\ args \in FnArgs(fn)
    /\ calls = <<>>
    /\ outcomes = <<<<>>, <<>>>>
    /\ UiIdle

Invoke ==
    /\ calls = <<>>
    /\ calls' = StartCalls(fn, args)
    /\ UNCHANGED <<fn, args, outcomes>>
    /\ UNCHANGED uiVars

DigestFulfil(i) ==
    /\ i \in 1..Len(calls)
    /\ calls[i].st = "await"
    /\ calls' = [calls EXCEPT ![i] =
                    Resume(@, Fulfilled(Pending(@).alg, Pending(@).data))]
    /\ outcomes' = [outcomes EXCEPT ![i] = Append(@, TRUE)]
    /\ UNCHANGED <<fn, args>>
    /\ UNCHANGED uiVars

DigestReject(i) ==
    /\ i \in 1..Len(calls)
    /\ calls[i].st = "await"
    /\ calls' = [calls EXCEPT ![i] = Resume(@, Rejected)]
    /\ outcomes' = [outcomes EXCEPT ![i] = Append(@, FALSE)]
    /\ UNCHANGED <<fn, args>>
    /\ UNCHANGED uiVars

FnNext ==
    \/ Invoke
    \/ \E i \in 1..2 : DigestFulfil(i)
    \/ \E i \in 1..2 : DigestReject(i)

FnSpec == FnInit /\ [][FnNext]_vars

\* getComposeHash on two manifest texts
PairInit ==
    /\ fn = "getComposeHash twice"
    /\ args \in {<<t1, t2>> : t1 \in CompactTexts \cup OtherTexts, t2 \in ManifestTexts}
    /\ calls = <<>>
    /\ outcomes = <<<<>>, <<>>>>
    /\ UiIdle

PairSpec == PairInit /\ [][FnNext]_vars

\* whether a digest promise of call i rejected
rejected(i) == \E k \in 1..Len(outcomes[i]) : ~outcomes[i][k]

(***************************************************************************)
(* RTMR3Calculator: the inputs and calculated states and the effect of     *)
(* lines 182-218.  A run is one execution of the effect: its invocation of *)
(* calculateValues and its isMounted variable.  React runs the effect      *)
(* after the render that follows setInputs; a settled digest promise of an *)
(* earlier run may be handled in between.  An effect run first executes    *)
(* the cleanup of the run before it.                                       *)
(***************************************************************************)
Fields == {"composeContent", "appId"}

\* the values typed into a field
Choices(field) ==
    IF field = "composeContent" THEN {<<>>, Render(<<<<KeyA, <<One>>>>>>, FALSE)}
    ELSE {<<>>, <<"0", "a">>}

\* inputs typed in earlier: the manifest and the application identifier
SettledInputs ==
    [composeContent : Choices("composeContent") \ {<<>>}, rootFsHash : {<<>>},
     appId : Choices("appId") \ {<<>>}, caCertHash : {<<>>}, instanceId : {<<>>}]

\* the inputs the component can hold
InputSpace ==
    {in \in [composeContent : Choices("composeContent"), rootFsHash : {<<>>},
             appId : Choices("appId"), caCertHash : {<<>>}, instanceId : {<<>>}] : TRUE}

\* how the digest promise an invocation awaits settles
Outcome(cv, ok) == IF ok THEN Fulfilled(cv.sub.alg, cv.sub.data) ELSE Rejected

\* every record an invocation on those inputs can go through
RECURSIVE Reach(_, _)
Reach(seen, frontier) ==
    IF frontier = {} THEN seen
    ELSE Reach(seen \cup frontier,
               {calculateValues_Resume(cv, Outcome(cv, ok)) :
                    cv \in {c \in frontier : c.st = "await"}, ok \in BOOLEAN}
                 \ (seen \cup frontier))

Invocations == Reach({}, {calculateValues_Start(in) : in \in InputSpace})

\* calculateValues_Start and calculateValues_Resume on those, computed once
StartTable == {<<in, calculateValues_Start(in)>> : in \in InputSpace}

Started == [in \in InputSpace |-> (CHOOSE p \in StartTable : p[1] = in)[2]]

Resumed ==
    [cv \in {c \in Invocations : c.st = "await"} |->
        [ok \in BOOLEAN |-> calculateValues_Resume(cv, Outcome(cv, ok))]]

\* an invocation run to its end with every digest call succeeding
RECURSIVE RunToEnd(_)
RunToEnd(cv) ==
    IF cv.st = "await"
    THEN RunToEnd(calculateValues_Resume(cv, Fulfilled(cv.sub.alg, cv.sub.data)))
    ELSE cv

FnIdle ==
    /\ fn = ""
    /\ args = <<>>
    /\ calls = <<>>
    /\ outcomes = <<<<>>, <<>>>>

\* the component as mounted (lines 162-180), or later, with inputs typed in
\* and the result of their computation displayed
Init ==
    /\ FnIdle
    /\ runs = <<>>
    /\ rejections = 0
    /\ writer = 0
    /\ \/ /\ inputs = NoInputs
          /\ calculated = NoCalculated
          /\ effectPending = TRUE
       \/ /\ inputs \in SettledInputs
          /\ calculated = Result(RunToEnd(Started[inputs]))
          /\ effectPending = FALSE

\* setCalculated for every completion, mounted or not
MayCommit_Always(run) == TRUE

\* line 206: if (isMounted)
MayCommit(run) == run.isMounted

\* lines 215-217: the cleanup of a run
Cleanup(run) == [run EXCEPT !.isMounted = FALSE]

\* lines 206-208 once run r is over: setCalculated, unless the run was cleaned
\* up or ended in the catch
Commit(r, run) ==
    IF run.cv.st = "ret" /\ ~run.cv.caught /\ MayCommit(run)
    THEN calculated' = Result(run.cv) /\ writer' = r
    ELSE UNCHANGED <<calculated, writer>>

\* lines 232-237 and 245-247: an input changes
onChange(field, value) ==
    /\ Len(runs) < MaxRuns
    /\ value # inputs[field]
    /\ inputs' = [inputs EXCEPT ![field] = value]
    /\ effectPending' = TRUE
    /\ UNCHANGED <<calculated, runs, rejections, writer>>
    /\ UNCHANGED fnVars

\* lines 182-218: the cleanup of the previous run, then the effect
useEffect ==
    /\ effectPending
    /\ Len(runs) < MaxRuns
    /\ LET run == [cv |-> Started[inputs], isMounted |-> TRUE]
           before == [r \in 1..Len(runs) |->
                        IF r = Len(runs) THEN Cleanup(runs[r]) ELSE runs[r]]
       IN  runs' = Append(before, run)
    /\ Commit(Len(runs'), runs'[Len(runs')])
    /\ effectPending' = FALSE
    /\ UNCHANGED <<inputs, rejections>>
    /\ UNCHANGED fnVars

\* the digest promise run r awaits settles (ok: fulfilled, otherwise rejected)
\* and the run goes on to its next await or to its end
Settle(r, ok) ==
    /\ r \in 1..Len(runs)
    /\ runs[r].cv.st = "await"
    /\ runs' = [runs EXCEPT ![r].cv = Resumed[@][ok]]
    /\ Commit(r, runs'[r])
    /\ UNCHANGED <<inputs, effectPending>>
    /\ UNCHANGED fnVars

RunDigestFulfil(r) ==
    /\ Settle(r, TRUE)
    /\ UNCHANGED rejections

RunDigestReject(r) ==
    /\ rejections < MaxRejects
    /\ Settle(r, FALSE)
    /\ rejections' = rejections + 1

Next ==
    \/ \E field \in Fields : \E value \in Choices(field) : onChange(field, value)
    \/ useEffect
    \/ \E r \in 1..MaxRuns : RunDigestFulfil(r)
    \/ \E r \in 1..MaxRuns : RunDigestReject(r)

Spec == Init /\ [][Next]_vars

\* the effect runs after the render, and every digest promise settles
FairSpec ==
    /\ Spec
    /\ WF_vars(useEffect)
    /\ \A r \in 1..MaxRuns : WF_vars(RunDigestFulfil(r) \/ RunDigestReject(r))

(***************************************************************************)
(* Properties of the functions on their own (FnSpec).                      *)
(***************************************************************************)
Returned(f) == fn = f /\ calls # <<>> /\ calls[1].st = "ret"

IsHexText(h) == \A i \in 1..Len(h) : IsHexChar(h[i])

\* the value of a hex character, written out
NibbleOf(c) ==
    CASE c = "0" -> 0 [] c = "1" -> 1 [] c = "2" -> 2 [] c = "3" -> 3
      [] c = "4" -> 4 [] c = "5" -> 5 [] c = "6" -> 6 [] c = "7" -> 7
      [] c = "8" -> 8 [] c = "9" -> 9
      [] c \in {"a", "A"} -> 10 [] c \in {"b", "B"} -> 11 [] c \in {"c", "C"} -> 12
      [] c \in {"d", "D"} -> 13 [] c \in {"e", "E"} -> 14 [] c \in {"f", "F"} -> 15

\* where the maximal run of hex characters around position i begins
RunStart(h, i) ==
    LET others == {j \in 1..i : ~IsHexChar(h[j])}
    IN  IF others = {} THEN 1 ELSE (CHOOSE j \in others : \A q \in others : q <= j) + 1

\* the positions where a pair begins: the 1st, 3rd, 5th ... character of a run
\* of hex characters, when another hex character follows it
PairStarts(h) ==
    {i \in 1..(Len(h) - 1) :
        /\ IsHexChar(h[i]) /\ IsHexChar(h[i + 1])
        /\ (i - RunStart(h, i)) % 2 = 0}

\* the bytes of the pairs at those positions, from left to right
PairsInRuns(h) ==
    LET starts == PairStarts(h)
        nth(k) == CHOOSE i \in starts : Cardinality({q \in starts : q < i}) = k - 1
    IN  [k \in 1..Cardinality(starts) |-> 16 * NibbleOf(h[nth(k)]) + NibbleOf(h[nth(k) + 1])]

\* the pairwise decoding of the text with the non-hex characters removed
StrippedDecode(h) ==
    LET kept == SelectSeq(h, IsHexChar)
    IN  [k \in 1..(Len(kept) \div 2) |-> 16 * NibbleOf(kept[2 * k - 1]) + NibbleOf(kept[2 * k])]

\* every run of hex characters has an even length
EvenRuns(h) ==
    \A i \in 1..Len(h) :
        (IsHexChar(h[i]) /\ (i = Len(h) \/ ~IsHexChar(h[i + 1])))
            => (i - RunStart(h, i)) % 2 = 1

\* C8 as stated: hexToUint8Array(hex) is the pairwise decoding of hex with all
\* its non-hex characters removed.
C8_StrippedDecoding ==
    Returned("hexToUint8Array") => calls[1].value = StrippedDecode(args[1])

\* C8 amended: hexToUint8Array(hex) is the bytes of the pairs of adjacent hex
\* characters found from left to right, pairs being counted from the start of
\* each run of hex characters; every other character is dropped, a hex
\* character left alone in its run included.  It is the pairwise decoding of
\* the text without its non-hex characters when every run has even length, and
\* it is empty when no two hex characters are adjacent.
C8_PairsWithinRuns ==
    Returned("hexToUint8Array") =>
        /\ calls[1].value = PairsInRuns(args[1])
        /\ EvenRuns(args[1]) => calls[1].value = StrippedDecode(args[1])
        /\ PairStarts(args[1]) = {} => calls[1].value = <<>>

\* a text where a non-hex character separates two hex characters, decoded
C8_Witness ==
    /\ Returned("hexToUint8Array")
    /\ args[1] = <<"a", "-", "F">>
    /\ calls[1].value = <<>>

\* right-padding with zero bytes to exactly 48 bytes
Pad48(b) == [i \in 1..48 |-> IF i <= Len(b) THEN b[i] ELSE 0]

\* the left fold of register' = SHA384(register || pad48(decodeHex(digest)))
RECURSIVE FoldFrom(_, _, _)
FoldFrom(history, k, register) ==
    IF k > Len(history) THEN register
    ELSE FoldFrom(history, k + 1,
                  Digest("SHA-384", register \o Pad48(hexToUint8Array(history[k]))))

OverLength(content) == Len(hexToUint8Array(content)) > 48

NoOverLength(history) == \A k \in 1..Len(history) : ~OverLength(history[k])

\* C3: when every digest call succeeds and no entry decodes to more than 48
\* bytes, rtmrReplay(history) is the hex of the left fold over history, from the
\* 48-zero-byte register, of register' = SHA384(register || pad48(decodeHex(entry)));
\* the register is 48 bytes before and after every step, the hashed buffer is 96
\* bytes, and the empty history gives 96 "0" characters.
C3_LeftFold ==
    fn = "rtmrReplay" /\ calls # <<>> =>
        /\ calls[1].st = "await" =>
                /\ Len(calls[1].loc.mr) = 48
                /\ NoOverLength(args[1]) => Len(calls[1].data) = 96
        /\ (calls[1].st = "ret" /\ ~rejected(1)) =>
                /\ Len(calls[1].value) = 96
                /\ NoOverLength(args[1]) =>
                        calls[1].value = uint8ArrayToHex(FoldFrom(args[1], 1, Zeros(48)))
                /\ args[1] = <<>> => calls[1].value = [i \in 1..96 |-> "0"]

\* a two-entry history with a short entry, replayed to the end
C3_Witness ==
    /\ Returned("rtmrReplay")
    /\ ~rejected(1)
    /\ args[1] = <<Digest48, <<"0", "a">>>>
    /\ Len(outcomes[1]) = 2
    /\ calls[1].value # [i \in 1..96 |-> "0"]

\* C4 as stated: an entry that decodes to more than 48 bytes is an error: no
\* digest call is made for it (no buffer longer than 96 bytes is hashed) and
\* the replay of a history holding one returns no register value.
C4_OverLengthIsError ==
    fn = "rtmrReplay" /\ calls # <<>> =>
        /\ calls[1].st = "await" =>
                /\ ~OverLength(args[1][calls[1].loc.k])
                /\ Len(calls[1].data) <= 96
        /\ (calls[1].st = "ret" /\ ~NoOverLength(args[1])) => calls[1].value = <<>>

\* C6 as stated: calcDigest returns the empty string for the empty value and 96
\* hex characters for every other value.
C6_Always96 ==
    Returned("calcDigest") =>
        IF args[2] = <<>> THEN calls[1].value = <<>>
        ELSE Len(calls[1].value) = 96 /\ IsHexText(calls[1].value)

\* C6 amended: calcDigest returns the empty string for the empty value; for every
\* other value it returns 96 hex characters when the digest call succeeds and the
\* empty string when it fails.
C6_96UnlessRejected ==
    Returned("calcDigest") =>
        IF args[2] = <<>> \/ rejected(1) THEN calls[1].value = <<>>
        ELSE Len(calls[1].value) = 96 /\ IsHexText(calls[1].value)

\* a value without any hex pair, digested
C6_Witness ==
    /\ Returned("calcDigest")
    /\ args[2] = <<"-", "-">>
    /\ ~rejected(1)
    /\ Len(calls[1].value) = 96

\* C7: in getComposeHash, calcDigest and rtmrReplay no exception leaves the
\* function, and once a digest call has failed the function has returned the
\* empty string (rtmrReplay: whatever the number of entries folded before).
C7_FailureGivesEmpty ==
    (fn \in {"getComposeHash", "calcDigest", "rtmrReplay"} /\ calls # <<>>) =>
        /\ calls[1].st # "throw"
        /\ rejected(1) => calls[1].st = "ret" /\ calls[1].value = <<>>

\* the second digest call of a replay failed after the first had succeeded
C7_Witness ==
    /\ Returned("rtmrReplay")
    /\ outcomes[1] = <<TRUE, FALSE>>
    /\ calls[1].value = <<>>

NonEmptyFields(in) ==
    /\ ~IsBlank(in.composeContent)
    /\ in.rootFsHash # <<>> /\ in.appId # <<>>
    /\ in.caCertHash # <<>> /\ in.instanceId # <<>>

\* a hex field that is well formed: pairs of hex characters, at least one
WellFormedHex(h) == h # <<>> /\ IsHexText(h) /\ Len(h) % 2 = 0

ValidFields(in) ==
    /\ ~IsBlank(in.composeContent)
    /\ WellFormedHex(in.rootFsHash) /\ WellFormedHex(in.appId)
    /\ WellFormedHex(in.caCertHash) /\ WellFormedHex(in.instanceId)

\* C1 as stated (every digest call succeeding): the final RTMR3 is 96 hex
\* characters when the manifest is not blank and the four hex fields are well
\* formed, and the empty string otherwise, also when a hex field is non-empty
\* without a hex pair.
C1_EmptyUnlessValid ==
    (Returned("calculateValues") /\ ~rejected(1)) =>
        IF ValidFields(args[1])
        THEN Len(calls[1].rtmr3) = 96 /\ IsHexText(calls[1].rtmr3)
        ELSE calls[1].rtmr3 = <<>>

\* C1 amended: the final RTMR3 is 96 hex characters when the manifest is not
\* blank, each of the four hex fields is a non-empty string (hex or not) and no
\* digest call fails; it is the empty string in every other case.
C1_EmptyUnlessPresent ==
    Returned("calculateValues") =>
        /\ ~calls[1].caught
        /\ IF NonEmptyFields(args[1]) /\ ~rejected(1)
           THEN Len(calls[1].rtmr3) = 96 /\ IsHexText(calls[1].rtmr3)
           ELSE calls[1].rtmr3 = <<>>

\* all five inputs present, one hex field without a hex pair: an RTMR3 comes out
C1_Witness ==
    /\ Returned("calculateValues")
    /\ ~rejected(1)
    /\ NonEmptyFields(args[1])
    /\ args[1].appId = <<"z", "z">>
    /\ Len(calls[1].rtmr3) = 96

\* the place of a digest call in the fixed order: the manifest hash, the five
\* event digests, the five extensions
Rank(label) ==
    CASE label[1] = "compose" -> 0
      [] label[1] = "digest" -> label[2]
      [] label[1] = "replay" -> 5 + label[2]

\* the event of the i-th place: its name and the value it measures
EventOrder == <<"rootfs-hash", "app-id", "compose-hash", "ca-cert-hash", "instance-id">>

MeasuredValue(cv, i) ==
    <<cv.inputs.rootFsHash, cv.inputs.appId, cv.composeHash,
      cv.inputs.caCertHash, cv.inputs.instanceId>>[i]

\* C9 for one invocation cv of calculateValues
OneAtATimeInOrder(cv) ==
    /\ Len(cv.issued) - Len(cv.settled) = (IF cv.st = "await" THEN 1 ELSE 0)
    /\ cv.settled = SubSeq(cv.issued, 1, Len(cv.settled))
    /\ \A k \in 1..(Len(cv.issued) - 1) : Rank(cv.issued[k]) < Rank(cv.issued[k + 1])
    /\ \A k \in 1..Len(cv.issued) :
          cv.issued[k][1] = "replay" =>
            /\ \A i \in 1..5 : cv.digests[i] # <<>>
            /\ \A i \in 1..5 : MeasuredValue(cv, i) # <<>> => <<"digest", i>> \in
                    {cv.issued[j] : j \in 1..(k - 1)}
            /\ cv.issued[k][2] = 1 \/ cv.issued[k - 1] = <<"replay", cv.issued[k][2] - 1>>
    /\ (cv.st = "await" /\ cv.stage = "compose") => cv.sub.alg = "SHA-256"
    /\ (cv.st = "await" /\ cv.stage = "digest") =>
            cv.sub.data = <<1, 0, 0, 8, 58>> \o eventNameBytes(EventOrder[cv.idx]) \o <<58>>
                            \o hexToUint8Array(MeasuredValue(cv, cv.idx))
    /\ (cv.st = "await" /\ cv.stage = "replay") =>
            /\ cv.sub.loc.history = cv.digests
            /\ SubSeq(cv.sub.data, 49, 96) = hexToUint8Array(cv.digests[cv.idx])

\* C9: within one computation the digest calls are issued one at a time, each
\* after the one before it has settled, in the order manifest hash, event
\* digests of rootfs-hash, app-id, compose-hash, ca-cert-hash, instance-id,
\* then the extensions over those five digests in that order; the replay is
\* entered only with five non-empty event digests.
C9_Sequential ==
    (fn = "calculateValues" /\ calls # <<>>) => OneAtATimeInOrder(calls[1])

\* a computation that went through all eleven digest calls
C9_Witness ==
    /\ Returned("calculateValues")
    /\ Len(calls[1].issued) = 11
    /\ Len(calls[1].settled) = 11
    /\ ~rejected(1)

(***************************************************************************)
(* getComposeHash on two manifest texts (PairSpec).                        *)
(***************************************************************************)
IsObjectText(text) == JSONParse(text).ok /\ JSONParse(text).val.t = "obj"

\* the fields of a parsed object, a missing docker_config counted as a last field
FieldsWithDockerConfig(m) ==
    IF \E i \in 1..Len(m) : m[i][1] = dockerConfigKey THEN m
    ELSE Append(m, <<dockerConfigKey, ObjVal(<<>>)>>)

\* the same keys in the same order with the same values, the value of
\* docker_config apart
SameButDockerConfig(t1, t2) ==
    LET a == FieldsWithDockerConfig(JSONParse(t1).val.m)
        b == FieldsWithDockerConfig(JSONParse(t2).val.m)
    IN  /\ Len(a) = Len(b)
        /\ \A i \in 1..Len(a) :
              /\ a[i][1] = b[i][1]
              /\ a[i][1] # dockerConfigKey => a[i][2] = b[i][2]

\* the last lexeme of the value that begins at position v
ValueEnd(text, v) ==
    IF text[v].k # "lb" THEN v
    ELSE CHOOSE j \in v..Len(text) :
            /\ Cardinality({q \in v..j : text[q].k = "lb"})
                    = Cardinality({q \in v..j : text[q].k = "rb"})
            /\ \A p \in v..(j - 1) :
                    Cardinality({q \in v..p : text[q].k = "lb"})
                        # Cardinality({q \in v..p : text[q].k = "rb"})

\* the positions of the lexemes that make up a value of the docker_config field
DockerConfigContents(text) ==
    {j \in 1..Len(text) :
        \E i \in 1..Len(text) :
            /\ text[i] = Lex("str", dockerConfigKey)
            /\ KindAt(text, SkipWs(text, i + 1)) = "colon"
            /\ LET v == SkipWs(text, SkipWs(text, i + 1) + 1)
               IN  v <= j /\ j <= ValueEnd(text, v)}

\* the text with the contents of docker_config cut out
WithoutDockerConfigContents(text) ==
    IF ~IsObjectText(text) THEN text
    ELSE LET keep == {j \in 1..Len(text) : j \notin DockerConfigContents(text)}
             nth(k) == CHOOSE j \in keep : Cardinality({q \in keep : q < j}) = k - 1
         IN  [k \in 1..Cardinality(keep) |-> text[nth(k)]]

BothAwait == Len(calls) = 2 /\ calls[1].st = "await" /\ calls[2].st = "await"
BothHashed ==
    /\ Len(calls) = 2 /\ calls[1].st = "ret" /\ calls[2].st = "ret"
    /\ ~rejected(1) /\ ~rejected(2)
    /\ ~IsBlank(args[1]) /\ ~IsBlank(args[2])

C2_OnlyLatestWrites == [][writer' # writer => writer' = Len(runs')]_vars

\* a superseded run is over, with a result that differs from what is displayed
C2_Witness ==
    \E r \in 1..(Len(runs) - 1) :
        /\ runs[r].cv.st = "ret"
        /\ ~runs[r].isMounted
        /\ writer > r
        /\ Result(runs[r].cv) # calculated
        /\ \E q \in (r + 1)..Len(runs) : Len(runs[q].cv.settled) < Len(runs[r].cv.settled)

\* what is displayed is the whole result of one run (or the initial state)
SingleResult ==
    \/ calculated = NoCalculated
    \/ \E in \in SettledInputs : calculated = Result(RunToEnd(Started[in]))
    \/ \E r \in 1..Len(runs) : runs[r].cv.st = "ret" /\ calculated = Result(runs[r].cv)

\* what is displayed is the result of the run started for the current inputs
LatestDisplayed ==
    /\ ~effectPending
    /\ IF runs = <<>>
       THEN calculated = Result(RunToEnd(Started[inputs]))
       ELSE /\ runs[Len(runs)].cv.inputs = inputs
            /\ runs[Len(runs)].cv.st = "ret"
            /\ calculated = Result(runs[Len(runs)].cv)

\* C10: what is displayed is always the complete result of a single run, and if
\* the inputs stop changing (every digest promise settling, the effect running)
\* it is from some point on the result of the run started for the latest inputs.
C10_EventuallyLatest ==
    /\ []SingleResult
    /\ (<>[][inputs' = inputs]_vars) => <>[]LatestDisplayed

\* the latest run completed after a run it superseded had completed with another result
C10_Witness ==
    /\ LatestDisplayed
    /\ runs # <<>>
    /\ Len(runs) >= 2
    /\ writer = Len(runs)
    /\ \E r \in 1..(Len(runs) - 1) :
          /\ runs[r].cv.st = "ret"
          /\ Result(runs[r].cv) # calculated
          /\ runs[r].cv.composeHash # <<>>
          /\ Len(runs[Len(runs)].cv.settled) > 0

====
